---- MODULE Spec2Model ----
(***************************************************************************)
(* Model of fmriprep/workflows/base.py: the top-level workflow builder     *)
(* init_fmriprep_wf, the per-subject builder init_single_subject_wf and    *)
(* the helpers _prefix and _pop, together with fmriprep/config.py.         *)
(*                                                                         *)
(* Strings are TLA+ strings (sequences of characters); graphs are records  *)
(* of node lists and edge sets; node and workflow configurations live in   *)
(* a heap of configuration objects so that sharing and copying differ.     *)
(***************************************************************************)
EXTENDS Integers, Sequences, FiniteSets, TLC

VARIABLES
    args,          \* arguments of the entry call (constant during a run)
    layout,        \* the dataset layout: subject id -> files on disk
    pc_top,        \* position inside init_fmriprep_wf
    idx,           \* index of the subject being built by init_fmriprep_wf
    fsdirs,        \* the BIDSFreeSurferDir nodes created so far
    fmriprep_wf,   \* the top-level graph
    pc,            \* position inside init_single_subject_wf
    call,          \* name and subject_id of the current init_single_subject_wf call
    subject_data,  \* the subject_data dictionary of the current call
    collected,     \* number of collect_data calls made by the current call
    workflow,      \* the per-subject graph under construction
    error,         \* message of the exception raised, "" if none
    heap,          \* configuration objects, addressed by position
    h_in,          \* helper check: the argument of _prefix
    h_out,         \* helper check: the successive results of _prefix
    p_in,          \* helper check: the argument of _pop
    p_out          \* helper check: the outcome of _pop, once called

vars == <<args, layout, pc_top, idx, fsdirs, fmriprep_wf, pc, call,
          subject_data, collected, workflow, error, heap, h_in, h_out,
          p_in, p_out>>

wfvars == <<args, layout, pc_top, idx, fsdirs, fmriprep_wf, pc, call,
            subject_data, collected, workflow, error, heap>>

---------------------------------------------------------------------------
(* Bounds of the model *)

MaxSubjects == 2
MaxBold == 2
MaxSpaces == 2
MaxLen == 4
MaxItems == 2

---------------------------------------------------------------------------
(* Python string and path primitives *)

startswith(s, p) == Len(s) >= Len(p) /\ SubSeq(s, 1, Len(p)) = p

endswith(s, p) == Len(s) >= Len(p) /\ SubSeq(s, Len(s) - Len(p) + 1, Len(s)) = p

RECURSIVE join(_, _)
join(sep, parts) ==
    IF Len(parts) = 0 THEN ""
    ELSE IF Len(parts) = 1 THEN parts[1]
    ELSE parts[1] \o sep \o join(sep, Tail(parts))

\* s.split('.')[-1]: the text after the last dot, all of s if it has none
LastComponent(s) ==
    LET dots == {k \in 1..Len(s) : SubSeq(s, k, k) = "."}
    IN IF dots = {} THEN s
       ELSE SubSeq(s, (CHOOSE k \in dots : \A j \in dots : j <= k) + 1, Len(s))

\* os.path.join of two components
PathJoin2(a, b) ==
    IF startswith(b, "/") THEN b
    ELSE IF a = "" \/ endswith(a, "/") THEN a \o b
    ELSE a \o "/" \o b

RECURSIVE PathJoin(_)
PathJoin(parts) ==
    IF Len(parts) = 1 THEN parts[1]
    ELSE PathJoin(<<PathJoin2(parts[1], parts[2])>> \o SubSeq(parts, 3, Len(parts)))

---------------------------------------------------------------------------
(* fmriprep/config.py *)

NONSTANDARD_REFERENCES == <<"anat", "T1w", "run", "func", "sbref", "fsnative">>

Range(f) == {f[k] : k \in DOMAIN f}

---------------------------------------------------------------------------
(* Helpers of base.py *)

_prefix_loose(subid) ==
    IF startswith(subid, "sub") THEN subid ELSE join("-", <<"sub", subid>>)

_prefix(subid) ==
    IF startswith(subid, "sub-") THEN subid ELSE join("-", <<"sub", subid>>)

\* the outcome of a call: a returned value, or the exception raised
Returned(value) == [raised |-> "", value |-> value]

Raised(exception) == [raised |-> exception, value |-> [kind |-> "", items |-> <<>>]]

\* lines 653-656: inlist[0] raises IndexError on an empty list or tuple
_pop(inlist) ==
    IF inlist.kind \in {"list", "tuple"}
    THEN IF Len(inlist.items) = 0
         THEN Raised("IndexError")
         ELSE Returned([kind |-> "int", items |-> <<inlist.items[1]>>])
    ELSE Returned(inlist)

---------------------------------------------------------------------------
(* Inputs: the values the builders are called with *)

Subjects == {"01", "fmripreptest"}

SubjectLists ==
    UNION {[1..n -> Subjects] : n \in 0..MaxSubjects}

BoldFile(k) == "task-rest_run-" \o ToString(k) \o "_bold.nii.gz"

\* what collect_data can find for one subject: BOLD runs in discovery order,
\* and one list that names the same path twice
BoldLists ==
    {[k \in 1..n |-> BoldFile(k)] : n \in 0..MaxBold}
        \cup {<<BoldFile(1), BoldFile(1)>>}

T1wLists == {<<>>, <<"sub_T1w.nii.gz">>}

SubjectFiles == [t1w : T1wLists, bold : BoldLists]

FullFiles == [t1w |-> <<"sub_T1w.nii.gz">>, bold |-> [k \in 1..MaxBold |-> BoldFile(k)]]

\* an optional string is a sequence of at most one string (None is <<>>)
None == <<>>

TaskIds == {None, <<"">>, <<"rest">>}

\* an ordered mapping is a sequence of entries with distinct keys; a modifier
\* mapping is a set of <<name, value>> pairs
SpaceKeys ==
    Range(NONSTANDARD_REFERENCES) \cup {"MNI152Lin", "fsaverage", "fsaverage5", "fsaverag"}

\* the modifiers each key is requested with (those of the docstring examples)
Modifiers(key) == IF key = "fsaverage" THEN {<<"density", "10k">>} ELSE {}

KeyLists ==
    {ks \in UNION {[1..n -> SpaceKeys] : n \in 0..MaxSpaces} :
        \A a, b \in DOMAIN ks : a # b => ks[a] # ks[b]}

OutputSpaces ==
    {[k \in DOMAIN ks |-> [key |-> ks[k], modifiers |-> Modifiers(ks[k])]] :
        ks \in KeyLists}

\* the mapping of the docstring examples
DocSpaces ==
    <<[key |-> "MNI152Lin", modifiers |-> {}],
      [key |-> "fsaverage", modifiers |-> {<<"density", "10k">>}],
      [key |-> "T1w", modifiers |-> {}],
      [key |-> "fsnative", modifiers |-> {}]>>

WorkflowNames ==
    {"single_subject_wf", "single_subject_fmripreptest_wf", "single_subject_01_wf"}

\* out_path_base a DerivativesDataSink carries when nothing overwrites it
SinkDefaults == {"fmriprep", "niworkflows"}

EntryArgs(entry, name, sid, slist, ao, fs, task, spaces, sink) ==
    [entry |-> entry, name |-> name, subject_id |-> sid,
     subject_list |-> slist, anat_only |-> ao,
     freesurfer |-> fs, task_id |-> task,
     output_spaces |-> spaces, sink_default |-> sink,
     output_dir |-> "/out", work_dir |-> "/work", run_uuid |-> "2019-x"]

\* direct calls of init_single_subject_wf, every file situation
SingleFileInputs ==
    {<<EntryArgs("init_single_subject_wf", n, s, <<>>, ao, fs, t, DocSpaces, d),
       [x \in {s} |-> f]>> :
        n \in WorkflowNames, s \in Subjects, ao \in BOOLEAN, fs \in BOOLEAN,
        t \in TaskIds, d \in SinkDefaults, f \in SubjectFiles}

\* direct calls of init_single_subject_wf, every output-space mapping
SingleSpaceInputs ==
    {<<EntryArgs("init_single_subject_wf", "single_subject_01_wf", "01", <<>>,
                 ao, TRUE, None, os, "fmriprep"),
       [x \in {"01"} |-> FullFiles]>> :
        ao \in BOOLEAN, os \in OutputSpaces}

\* calls of init_fmriprep_wf, every subject list and layout
TopSubjectInputs ==
    UNION {{<<EntryArgs("init_fmriprep_wf", "", "", sl, ao, fs, None, DocSpaces,
                        "fmriprep"), l>> :
                ao \in BOOLEAN, fs \in BOOLEAN, l \in [Range(sl) -> SubjectFiles]} :
           sl \in SubjectLists}

\* calls of init_fmriprep_wf, every output-space mapping
TopSpaceInputs ==
    {<<EntryArgs("init_fmriprep_wf", "", "", sl, TRUE, fs, None, os, "fmriprep"),
       [x \in Range(sl) |-> FullFiles]>> :
        sl \in {<<>>, <<"01">>}, fs \in BOOLEAN, os \in OutputSpaces}

Inputs == SingleFileInputs \cup SingleSpaceInputs \cup TopSubjectInputs \cup TopSpaceInputs

---------------------------------------------------------------------------
(* Graph values *)

NoWorkflow ==
    [name |-> "", config |-> 0, nodes |-> <<>>, anat |-> <<>>, funcs |-> <<>>,
     edges |-> {}]

NoCall == [name |-> "", subject_id |-> ""]

NoData == [t1w |-> <<>>, bold |-> <<>>]

EmptyTop == [name |-> "", nodes |-> <<>>, subjects |-> <<>>, edges |-> {}]

\* nipype's Workflow() starts from the engine's configuration defaults
DefaultConfig == [crashdump_dir |-> "<engine default>"]

\* a Python value: its type and, for a list or tuple, its items; a scalar
\* holds itself as its only item
PyValue(kind, items) == [kind |-> kind, items |-> items]

\* no _pop call is being checked
NoArgument == PyValue("<no argument>", <<>>)

Init ==
    /\ \E inp \in Inputs :
        /\ args = inp[1]
        /\ layout = inp[2]
        /\ IF inp[1].entry = "init_fmriprep_wf"
           THEN pc_top = "start" /\ pc = "idle" /\ call = NoCall
           ELSE /\ pc_top = "none" /\ pc = "collect"
                /\ call = [name |-> inp[1].name, subject_id |-> inp[1].subject_id]
    /\ idx = 1
    /\ fsdirs = <<>>
    /\ fmriprep_wf = EmptyTop
    /\ subject_data = NoData
    /\ collected = 0
    /\ workflow = NoWorkflow
    /\ error = ""
    /\ heap = <<>>
    /\ h_in = ""
    /\ h_out = <<>>
    /\ p_in = NoArgument
    /\ p_out = <<>>

---------------------------------------------------------------------------
(* init_single_subject_wf *)

\* line 461 with the bare name only
DocNamesBare == {"single_subject_wf"}

\* line 461
DocNames == {"single_subject_wf", "single_subject_fmripreptest_wf"}

DocData ==
    [t1w |-> <<"/completely/made/up/path/sub-01_T1w.nii.gz">>,
     bold |-> <<"/completely/made/up/path/sub-01_task-nback_bold.nii.gz">>]

\* collect_data(layout, subject_id, task_id, echo_idx)[0]
collect_data(subject_id) == layout[subject_id]

\* lines 461-468: placeholder data for the documentation names, else discovery
Collect ==
    /\ pc = "collect"
    /\ IF call.name \in DocNames
       THEN subject_data' = DocData /\ collected' = collected
       ELSE subject_data' = collect_data(call.subject_id) /\ collected' = collected + 1
    /\ pc' = "check_bold"
    /\ UNCHANGED <<args, layout, pc_top, idx, fsdirs, fmriprep_wf, call, workflow,
                   error, heap, h_in, h_out, p_in, p_out>>

\* line 474 testing the task filter against None only
TruthyNotNone(opt) == opt # None

\* line 474: the truth value of task_id
Truthy(opt) == opt # None /\ opt[1] # ""

NoBoldMessage ==
    "No BOLD images found for participant " \o call.subject_id \o " and task "
        \o (IF Truthy(args.task_id) THEN args.task_id[1] ELSE "<all>")
        \o ". All workflows require BOLD images."

NoT1wMessage ==
    "No T1w images found for participant " \o call.subject_id
        \o ". All workflows require T1w images."

\* line 471 without the anat_only condition
MissingBoldAlways(anat_only, data) == data.bold = <<>>

\* line 471: not anat_only and subject_data['bold'] == []
MissingBold(anat_only, data) == ~anat_only /\ data.bold = <<>>

\* lines 471-474
CheckBold ==
    /\ pc = "check_bold"
    /\ IF MissingBold(args.anat_only, subject_data)
       THEN pc' = "raised" /\ error' = NoBoldMessage
       ELSE pc' = "check_t1w" /\ error' = error
    /\ UNCHANGED <<args, layout, pc_top, idx, fsdirs, fmriprep_wf, call, subject_data,
                   collected, workflow, heap, h_in, h_out, p_in, p_out>>

\* line 476 testing the BOLD list a second time
MissingT1wFromBold(data) == Len(data.bold) = 0

\* line 476: not subject_data['t1w']
MissingT1w(data) == Len(data.t1w) = 0

\* lines 476-478
CheckT1w ==
    /\ pc = "check_t1w"
    /\ IF MissingT1w(subject_data)
       THEN pc' = "raised" /\ error' = NoT1wMessage
       ELSE pc' = "build" /\ error' = error
    /\ UNCHANGED <<args, layout, pc_top, idx, fsdirs, fmriprep_wf, call, subject_data,
                   collected, workflow, heap, h_in, h_out, p_in, p_out>>

\* line 515 with the condition left out
IsStandardAny(key) == TRUE

\* line 515: key not in NONSTANDARD_REFERENCES
IsStandard(key) == key \notin Range(NONSTANDARD_REFERENCES)

\* lines 513-515
StdSpaces(output_spaces) ==
    SelectSeq(output_spaces, LAMBDA e : IsStandard(e.key))

\* a node that is no DerivativesDataSink has no out_path_base; config None is 0
Unset == "<unset>"

Node(name, base) == [name |-> name, out_path_base |-> base, config |-> 0]

\* lines 517-543: the nodes the builder creates itself, in creation order
OwnNodes(sink_default) ==
    <<Node("inputnode", Unset), Node("bidssrc", Unset), Node("bids_info", Unset),
      Node("summary", Unset), Node("about", Unset),
      Node("ds_report_summary", sink_default), Node("ds_report_about", sink_default)>>

\* lines 546-560: what smriprep's init_anat_preproc_wf returns, as far as this
\* file reads it: a sub-workflow with ports and nested sinks of smriprep's namespace
AnatNodes ==
    <<Node("anat_preproc_wf.inputnode", Unset),
      Node("anat_preproc_wf.outputnode", Unset),
      Node("anat_preproc_wf.anat_derivatives_wf.ds_t1_preproc", "smriprep"),
      Node("anat_preproc_wf.anat_reports_wf.ds_t1_seg_mask_report", "smriprep"),
      Node("anat_preproc_wf.anat_reports_wf.t1_ds_name", Unset)>>

AnatArgs(output_spaces, num_t1w) ==
    [name |-> "anat_preproc_wf", freesurfer |-> args.freesurfer,
     num_t1w |-> num_t1w, output_dir |-> args.output_dir,
     output_spaces |-> StdSpaces(output_spaces)]

Edge(src, out, fn, dst, inport) ==
    [src |-> src, out |-> out, fn |-> fn, dst |-> dst, in |-> inport]

\* lines 562-579
SubjectEdges ==
    {Edge("inputnode", "subjects_dir", "", "anat_preproc_wf", "inputnode.subjects_dir"),
     Edge("bidssrc", "t1w", "fix_multi_T1w_source_name", "bids_info", "in_file"),
     Edge("inputnode", "subjects_dir", "", "summary", "subjects_dir"),
     Edge("bidssrc", "t1w", "", "summary", "t1w"),
     Edge("bidssrc", "t2w", "", "summary", "t2w"),
     Edge("bidssrc", "bold", "", "summary", "bold"),
     Edge("bids_info", "subject", "", "summary", "subject_id"),
     Edge("bids_info", "subject", "_prefix", "anat_preproc_wf", "inputnode.subject_id"),
     Edge("bidssrc", "t1w", "", "anat_preproc_wf", "inputnode.t1w"),
     Edge("bidssrc", "t2w", "", "anat_preproc_wf", "inputnode.t2w"),
     Edge("bidssrc", "roi", "", "anat_preproc_wf", "inputnode.roi"),
     Edge("bidssrc", "flair", "", "anat_preproc_wf", "inputnode.flair"),
     Edge("bidssrc", "t1w", "fix_multi_T1w_source_name", "ds_report_summary", "source_file"),
     Edge("summary", "out_report", "", "ds_report_summary", "in_file"),
     Edge("bidssrc", "t1w", "fix_multi_T1w_source_name", "ds_report_about", "source_file"),
     Edge("about", "out_report", "", "ds_report_about", "in_file")}

\* lines 480-579: the workflow, its nodes, the anatomical sub-workflow, the edges
Build ==
    /\ pc = "build"
    /\ heap' = Append(heap, DefaultConfig)
    /\ workflow' =
        [name |-> call.name, config |-> Len(heap) + 1,
         nodes |-> OwnNodes(args.sink_default) \o AnatNodes,
         anat |-> <<AnatArgs(args.output_spaces, Len(subject_data.t1w))>>,
         funcs |-> <<>>,
         edges |-> SubjectEdges]
    /\ pc' = "overwrite"
    /\ UNCHANGED <<args, layout, pc_top, idx, fsdirs, fmriprep_wf, call, subject_data,
                   collected, error, h_in, h_out, p_in, p_out>>

\* line 583, with the whole dotted name tested instead of its last component
IsSinkNameDotted(node) == startswith(node, "ds_")

\* line 583
IsSinkName(node) == startswith(LastComponent(node), "ds_")

\* lines 582-584
Overwrite ==
    /\ pc = "overwrite"
    /\ workflow' = [workflow EXCEPT !.nodes =
            [k \in DOMAIN workflow.nodes |->
                IF IsSinkName(workflow.nodes[k].name)
                THEN [workflow.nodes[k] EXCEPT !.out_path_base = "fmriprep"]
                ELSE workflow.nodes[k]]]
    /\ pc' = "anat_only"
    /\ UNCHANGED <<args, layout, pc_top, idx, fsdirs, fmriprep_wf, call, subject_data,
                   collected, error, heap, h_in, h_out, p_in, p_out>>

\* lines 586-587
AnatOnly ==
    /\ pc = "anat_only"
    /\ pc' = IF args.anat_only THEN "returned" ELSE "func"
    /\ UNCHANGED <<args, layout, pc_top, idx, fsdirs, fmriprep_wf, call, subject_data,
                   collected, workflow, error, heap, h_in, h_out, p_in, p_out>>

\* init_func_preproc_wf (fmriprep/workflows/bold.py): a sub-workflow named after
\* its BOLD file, with an inputnode and sinks of this package's DerivativesDataSink
FuncWfName(bold_file) == "func_preproc_" \o bold_file \o "_wf"

FuncArgs(bold_file, num_bold) ==
    [name |-> FuncWfName(bold_file), bold_file |-> bold_file, num_bold |-> num_bold,
     freesurfer |-> args.freesurfer, output_dir |-> args.output_dir,
     output_spaces |-> args.output_spaces]

FuncNodes(fname, sink_default) ==
    <<Node(fname \o ".inputnode", Unset),
      Node(fname \o ".ds_report_summary", sink_default),
      Node(fname \o ".func_derivatives_wf.ds_bold_native", sink_default)>>

\* lines 621-641: anatomical output port, adapter, functional input port
AnatToFunc ==
    {<<"outputnode.t1_preproc", "_pop", "inputnode.t1_preproc">>,
     <<"outputnode.t1_brain", "", "inputnode.t1_brain">>,
     <<"outputnode.t1_mask", "", "inputnode.t1_mask">>,
     <<"outputnode.t1_seg", "", "inputnode.t1_seg">>,
     <<"outputnode.t1_aseg", "", "inputnode.t1_aseg">>,
     <<"outputnode.t1_aparc", "", "inputnode.t1_aparc">>,
     <<"outputnode.t1_tpms", "", "inputnode.t1_tpms">>,
     <<"outputnode.template", "", "inputnode.template">>,
     <<"outputnode.forward_transform", "", "inputnode.anat2std_xfm">>,
     <<"outputnode.reverse_transform", "", "inputnode.std2anat_xfm">>,
     <<"outputnode.joint_template", "", "inputnode.joint_template">>,
     <<"outputnode.joint_forward_transform", "", "inputnode.joint_anat2std_xfm">>,
     <<"outputnode.joint_reverse_transform", "", "inputnode.joint_std2anat_xfm">>,
     <<"outputnode.subjects_dir", "", "inputnode.subjects_dir">>,
     <<"outputnode.subject_id", "", "inputnode.subject_id">>,
     <<"outputnode.t1_2_fsnative_forward_transform", "",
       "inputnode.t1_2_fsnative_forward_transform">>,
     <<"outputnode.t1_2_fsnative_reverse_transform", "",
       "inputnode.t1_2_fsnative_reverse_transform">>}

\* line 622 without the _pop adapter
FuncEdgesNoPop(fname) ==
    {Edge("anat_preproc_wf", c[1], "", fname, c[3]) : c \in AnatToFunc}

\* lines 620-642
FuncEdges(fname) ==
    {Edge("anat_preproc_wf", c[1], c[2], fname, c[3]) : c \in AnatToFunc}

\* the engine accepting a second child of the same name
ChildNamesUnchecked(w) == {}

\* the names of a workflow's direct children (nodes and sub-workflows)
ChildNames(w) ==
    {w.nodes[k].name : k \in {x \in DOMAIN w.nodes : LastComponent(w.nodes[x].name) = w.nodes[x].name}}
        \cup {w.anat[k].name : k \in DOMAIN w.anat}
        \cup {w.funcs[k].name : k \in DOMAIN w.funcs}

\* line 589 taking the runs in reverse
NextBoldReversed(bold, done) == bold[Len(bold) - done]

\* line 589: the loop takes the BOLD files in list order
NextBold(bold, done) == bold[done + 1]

\* lines 589-642, one iteration; the engine's connect refuses a second child of
\* the same name (Workflow._check_nodes)
ConnectFunc ==
    /\ pc = "func"
    /\ Len(workflow.funcs) < Len(subject_data.bold)
    /\ LET bold_file == NextBold(subject_data.bold, Len(workflow.funcs))
           f == FuncArgs(bold_file, Len(subject_data.bold))
       IN IF f.name \in ChildNames(workflow)
          THEN /\ pc' = "raised"
               /\ error' = "Duplicate node name"
               /\ workflow' = workflow
          ELSE /\ pc' = "func"
               /\ error' = error
               /\ workflow' = [workflow EXCEPT
                    !.funcs = Append(@, f),
                    !.nodes = @ \o FuncNodes(f.name, args.sink_default),
                    !.edges = @ \cup FuncEdges(f.name)]
    /\ UNCHANGED <<args, layout, pc_top, idx, fsdirs, fmriprep_wf, call, subject_data,
                   collected, heap, h_in, h_out, p_in, p_out>>

\* line 644
Return ==
    /\ pc = "func"
    /\ Len(workflow.funcs) = Len(subject_data.bold)
    /\ pc' = "returned"
    /\ UNCHANGED <<args, layout, pc_top, idx, fsdirs, fmriprep_wf, call, subject_data,
                   collected, workflow, error, heap, h_in, h_out, p_in, p_out>>

---------------------------------------------------------------------------
(* init_fmriprep_wf *)

\* str.replace(old, new) for a one-character old
RECURSIVE Replace(_, _, _)
Replace(s, old, new) ==
    IF Len(s) = 0 THEN ""
    ELSE (IF SubSeq(s, 1, 1) = old THEN new ELSE SubSeq(s, 1, 1))
            \o Replace(Tail(s), old, new)

Keys(output_spaces) == [k \in DOMAIN output_spaces |-> output_spaces[k].key]

\* lines 219-220 with the prefix test widened to 'fs'
FsSpacesWide(output_spaces) ==
    SelectSeq(Keys(output_spaces), LAMBDA s : startswith(s, "fs"))

\* lines 219-220
FsSpaces(output_spaces) ==
    SelectSeq(Keys(output_spaces), LAMBDA s : startswith(s, "fsaverage"))
        \o (IF "fsnative" \in Range(Keys(output_spaces)) THEN <<"fsnative">> ELSE <<>>)

\* lines 211-223
CreateTop ==
    /\ pc_top = "start"
    /\ fmriprep_wf' = [EmptyTop EXCEPT !.name = "fmriprep_wf"]
    /\ fsdirs' =
        IF args.freesurfer
        THEN <<[name |-> "fsdir_run_" \o Replace(args.run_uuid, "-", "_"),
                derivatives |-> args.output_dir,
                spaces |-> FsSpaces(args.output_spaces)]>>
        ELSE <<>>
    /\ pc_top' = "loop"
    /\ UNCHANGED <<args, layout, idx, pc, call, subject_data, collected, workflow,
                   error, heap, h_in, h_out, p_in, p_out>>

\* line 244 without the suffix
SubjectWfNameBare(subject_id) == "single_subject_" \o subject_id

\* line 244
SubjectWfName(subject_id) == "single_subject_" \o subject_id \o "_wf"

\* lines 224-260: the next subject's init_single_subject_wf call begins
CallSubject ==
    /\ pc_top = "loop"
    /\ idx <= Len(args.subject_list)
    /\ call' = [name |-> SubjectWfName(args.subject_list[idx]),
                subject_id |-> args.subject_list[idx]]
    /\ pc' = "collect"
    /\ pc_top' = "call"
    /\ subject_data' = NoData
    /\ collected' = 0
    /\ workflow' = NoWorkflow
    /\ UNCHANGED <<args, layout, idx, fsdirs, fmriprep_wf, error, heap, h_in, h_out, p_in, p_out>>

\* lines 262-264
CrashdumpDir(subject_id) ==
    PathJoin(<<args.output_dir, "fmriprep", "sub-" \o subject_id, "log", args.run_uuid>>)

SetCrashdump ==
    /\ pc_top = "call"
    /\ pc = "returned"
    /\ heap' = [heap EXCEPT ![workflow.config].crashdump_dir = CrashdumpDir(call.subject_id)]
    /\ pc_top' = "propagate"
    /\ UNCHANGED <<args, layout, idx, fsdirs, fmriprep_wf, pc, call, subject_data,
                   collected, workflow, error, h_in, h_out, p_in, p_out>>

\* line 266 without deepcopy: every node refers to the workflow's own object
SharedConfig(h, w) == [heap |-> h, refs |-> [k \in DOMAIN w.nodes |-> w.config]]

\* line 266: deepcopy makes one new configuration object per node
CopiedConfig(h, w) ==
    [heap |-> h \o [k \in DOMAIN w.nodes |-> h[w.config]],
     refs |-> [k \in DOMAIN w.nodes |-> Len(h) + k]]

\* lines 265-266
PropagateConfig ==
    /\ pc_top = "propagate"
    /\ LET c == CopiedConfig(heap, workflow)
       IN /\ heap' = c.heap
          /\ workflow' = [workflow EXCEPT !.nodes =
                [k \in DOMAIN workflow.nodes |->
                    [workflow.nodes[k] EXCEPT !.config = c.refs[k]]]]
    /\ pc_top' = "attach"
    /\ UNCHANGED <<args, layout, idx, fsdirs, fmriprep_wf, pc, call, subject_data,
                   collected, error, h_in, h_out, p_in, p_out>>

\* lines 267-271; connect and add_nodes refuse a second child of the same name
Attach ==
    /\ pc_top = "attach"
    /\ IF workflow.name \in Range(fmriprep_wf.nodes)
       THEN /\ pc_top' = "raised"
            /\ error' = "Duplicate node name"
            /\ UNCHANGED <<fmriprep_wf, idx>>
       ELSE /\ pc_top' = "loop"
            /\ error' = error
            /\ idx' = idx + 1
            /\ fmriprep_wf' =
                IF args.freesurfer
                THEN [fmriprep_wf EXCEPT
                        !.nodes = (IF fsdirs[1].name \in Range(@) THEN @
                                   ELSE Append(@, fsdirs[1].name))
                                    \o <<workflow.name>>,
                        !.subjects = Append(@, workflow),
                        !.edges = @ \cup {Edge(fsdirs[1].name, "subjects_dir", "",
                                               workflow.name, "inputnode.subjects_dir")}]
                ELSE [fmriprep_wf EXCEPT
                        !.nodes = Append(@, workflow.name),
                        !.subjects = Append(@, workflow)]
    /\ pc' = "idle"
    /\ UNCHANGED <<args, layout, fsdirs, call, subject_data, collected, workflow,
                   heap, h_in, h_out, p_in, p_out>>

\* line 273
ReturnTop ==
    /\ pc_top = "loop"
    /\ idx > Len(args.subject_list)
    /\ pc_top' = "done"
    /\ UNCHANGED <<args, layout, idx, fsdirs, fmriprep_wf, pc, call, subject_data,
                   collected, workflow, error, heap, h_in, h_out, p_in, p_out>>

Next ==
    \/ Collect
    \/ CheckBold
    \/ CheckT1w
    \/ Build
    \/ Overwrite
    \/ AnatOnly
    \/ ConnectFunc
    \/ Return
    \/ CreateTop
    \/ CallSubject
    \/ SetCrashdump
    \/ PropagateConfig
    \/ Attach
    \/ ReturnTop

Spec == Init /\ [][Next]_vars

---------------------------------------------------------------------------
(* The helpers, applied to every short string *)

Alphabet == {"s", "u", "b", "-", "0", "1"}

RECURSIVE StringsUpTo(_)
StringsUpTo(n) ==
    IF n = 0 THEN {""}
    ELSE LET shorter == StringsUpTo(n - 1)
         IN shorter \cup {s \o c : s \in shorter, c \in Alphabet}

HelperStrings == StringsUpTo(MaxLen) \cup {"sub-01", "sub-sub-"}

\* the items are integers
Items == {5, 6}

PopValues ==
    {PyValue(k, it) : k \in {"list", "tuple"},
                      it \in UNION {[1..n -> Items] : n \in 0..MaxItems}}
        \cup {PyValue("int", <<i>>) : i \in Items}
        \cup {PyValue("NoneType", <<>>)}

InitHelpers ==
    /\ \/ h_in \in HelperStrings /\ p_in = NoArgument
       \/ h_in = "" /\ p_in \in PopValues
    /\ h_out = <<>>
    /\ p_out = <<>>
    /\ args = EntryArgs("helpers", "", "", <<>>, FALSE, FALSE, None, <<>>, "fmriprep")
    /\ layout = <<>>
    /\ pc_top = "none"
    /\ pc = "idle"
    /\ call = NoCall
    /\ idx = 1
    /\ fsdirs = <<>>
    /\ fmriprep_wf = EmptyTop
    /\ subject_data = NoData
    /\ collected = 0
    /\ workflow = NoWorkflow
    /\ error = ""
    /\ heap = <<>>

\* _prefix applied to the argument, then to its own result
ApplyPrefix ==
    /\ Len(h_out) < 2
    /\ h_out' = Append(h_out, _prefix(IF h_out = <<>> THEN h_in ELSE h_out[Len(h_out)]))
    /\ UNCHANGED <<h_in, p_in, p_out, wfvars>>

\* _pop applied to the argument
ApplyPop ==
    /\ p_in # NoArgument
    /\ p_out = <<>>
    /\ p_out' = <<_pop(p_in)>>
    /\ UNCHANGED <<h_in, h_out, p_in, wfvars>>

NextHelpers == ApplyPrefix \/ ApplyPop

SpecHelpers == InitHelpers /\ [][NextHelpers]_vars

---------------------------------------------------------------------------
(* Properties *)

\* an init_single_subject_wf call is in progress or has just ended
InCall == pc # "idle"

\* the files the layout holds for the subject of the current call
Discovered == layout[call.subject_id]

BeforeBuild == pc \in {"collect", "check_bold", "check_t1w", "raised"}

\* C1 as stated: for a subject with zero T1-weighted files init_single_subject_wf
\* never returns a graph, whatever the other arguments (workflow name included).
C1_AsStated ==
    (InCall /\ Len(Discovered.t1w) = 0) => pc # "returned"

\* C1, amended: for a subject with zero T1-weighted files and a workflow name
\* other than the two documentation names, init_single_subject_wf raises before
\* any graph is constructed (missing-BOLD or missing-T1w message), for every
\* anat_only, BOLD list and task filter.
C1_NoT1wFails ==
    (InCall /\ call.name \notin DocNames /\ Len(Discovered.t1w) = 0) =>
        /\ BeforeBuild
        /\ workflow = NoWorkflow
        /\ pc = "raised" => error \in {NoBoldMessage, NoT1wMessage}
        /\ (pc = "raised" /\ (args.anat_only \/ Discovered.bold # <<>>))
                => error = NoT1wMessage

C1_Witness ==
    /\ pc = "raised"
    /\ call.name \notin DocNames
    /\ Len(Discovered.t1w) = 0
    /\ Discovered.bold # <<>>
    /\ error = NoT1wMessage

\* C2 as stated: for a subject with zero BOLD files, anat_only=False never
\* returns a graph and anat_only=True never raises and returns a graph without
\* functional sub-pipelines.
C2_AsStated ==
    (InCall /\ Discovered.bold = <<>>) =>
        /\ ~args.anat_only => pc # "returned"
        /\ args.anat_only => (pc # "raised" /\ workflow.funcs = <<>>)

\* C2, amended: for a subject with zero BOLD files and a workflow name other
\* than the two documentation names, anat_only=False raises the missing-BOLD
\* error before any graph is constructed; the identical subject with
\* anat_only=True returns a graph without functional sub-pipelines when it has
\* at least one T1w file, and raises the missing-T1w error when it has none.
C2_ZeroBold ==
    (InCall /\ call.name \notin DocNames /\ Discovered.bold = <<>>) =>
        /\ ~args.anat_only =>
            /\ pc \in {"collect", "check_bold", "raised"}
            /\ workflow = NoWorkflow
            /\ pc = "raised" => error = NoBoldMessage
        /\ (args.anat_only /\ Len(Discovered.t1w) > 0) =>
            /\ pc \notin {"raised", "func"}
            /\ workflow.funcs = <<>>
            /\ \A e \in workflow.edges : ~startswith(e.dst, "func_preproc_")
            /\ \A k \in DOMAIN workflow.nodes :
                    ~startswith(workflow.nodes[k].name, "func_preproc_")
        /\ (args.anat_only /\ Len(Discovered.t1w) = 0) =>
            /\ BeforeBuild
            /\ pc = "raised" => error = NoT1wMessage

C2_Witness ==
    /\ pc = "returned"
    /\ call.name \notin DocNames
    /\ Discovered.bold = <<>>
    /\ args.anat_only
    /\ workflow.name = call.name
    /\ workflow.funcs = <<>>

\* the BOLD file and BOLD-run count each functional sub-pipeline was built with
FuncsBuiltFrom(bold) ==
    /\ Len(workflow.funcs) = Len(bold)
    /\ \A k \in DOMAIN workflow.funcs :
            /\ workflow.funcs[k].bold_file = bold[k]
            /\ workflow.funcs[k].num_bold = Len(bold)

\* C3 as stated: a returned graph holds one functional sub-pipeline per
\* discovered BOLD file, in discovery order, each built with that file and the
\* count N, when anat_only is false, and none when anat_only is true.
C3_AsStated ==
    pc = "returned" =>
        IF args.anat_only THEN workflow.funcs = <<>>
        ELSE FuncsBuiltFrom(Discovered.bold)

\* C3, amended: as stated, where the BOLD files are the subject's discovered
\* files unless the workflow name is one of the two documentation names, in
\* which case they are the single placeholder BOLD file (N = 1).
C3_OneFuncPerBold ==
    pc = "returned" =>
        IF args.anat_only THEN workflow.funcs = <<>>
        ELSE FuncsBuiltFrom(IF call.name \in DocNames THEN DocData.bold
                            ELSE Discovered.bold)

C3_Witness ==
    /\ pc = "returned"
    /\ ~args.anat_only
    /\ call.name \notin DocNames
    /\ Len(Discovered.bold) = MaxBold
    /\ Len(workflow.funcs) = MaxBold

FuncNames == {workflow.funcs[k].name : k \in DOMAIN workflow.funcs}

\* the edges into a child, without the child's name
Incoming(name) ==
    {<<e.src, e.out, e.fn, e.in>> : e \in {x \in workflow.edges : x.dst = name}}

RenamedPorts ==
    {<<"outputnode.forward_transform", "inputnode.anat2std_xfm">>,
     <<"outputnode.reverse_transform", "inputnode.std2anat_xfm">>,
     <<"outputnode.joint_forward_transform", "inputnode.joint_anat2std_xfm">>,
     <<"outputnode.joint_reverse_transform", "inputnode.joint_std2anat_xfm">>}

\* "outputnode.x" and "inputnode.x" name the same field x
SameField(out, inport) ==
    /\ startswith(out, "outputnode.")
    /\ startswith(inport, "inputnode.")
    /\ SubSeq(out, 12, Len(out)) = SubSeq(inport, 11, Len(inport))

\* C4: every functional sub-pipeline has the same 17 incoming edges, all from
\* the anatomical sub-pipeline's output ports to its own input ports, with
\* t1_preproc passed through _pop and the transforms renamed to
\* anat2std_xfm / std2anat_xfm; no edge leaves a functional sub-pipeline and
\* none connects two of them.
C4_SameAnatEdges ==
    \A f \in FuncNames :
        /\ Cardinality(Incoming(f)) = 17
        /\ Cardinality({e[2] : e \in Incoming(f)}) = 17
        /\ Cardinality({e[4] : e \in Incoming(f)}) = 17
        /\ \A e \in Incoming(f) :
            /\ e[1] = "anat_preproc_wf"
            /\ (e[3] = "_pop") = (e[2] = "outputnode.t1_preproc")
            /\ e[3] \in {"", "_pop"}
            /\ <<e[2], e[4]>> \in RenamedPorts \/ SameField(e[2], e[4])
        /\ RenamedPorts \subseteq {<<e[2], e[4]>> : e \in Incoming(f)}
        /\ \A g \in FuncNames : Incoming(g) = Incoming(f)
        /\ \A e \in workflow.edges : e.src \notin FuncNames

C4_Witness ==
    /\ pc = "returned"
    /\ Len(workflow.funcs) = MaxBold
    /\ Cardinality(FuncNames) = MaxBold
    /\ Cardinality(workflow.edges) = 16 + 17 * MaxBold

SixLabels == {"anat", "T1w", "run", "func", "sbref", "fsnative"}

\* position of an entry in an ordered mapping (0 when absent)
PositionIn(mapping, entry) ==
    IF \E k \in DOMAIN mapping : mapping[k] = entry
    THEN CHOOSE k \in DOMAIN mapping : mapping[k] = entry
    ELSE 0

\* C5: the mapping given to the anatomical sub-pipeline holds exactly the
\* requested entries whose key is none of the six non-standard labels, each
\* with its modifiers, in the request's relative order; every functional
\* sub-pipeline is given the full requested mapping.
C5_StandardSubset ==
    \A a \in Range(workflow.anat) :
        LET std == a.output_spaces
            req == args.output_spaces
        IN /\ \A k \in DOMAIN std :
                /\ std[k].key \notin SixLabels
                /\ PositionIn(req, std[k]) > 0
           /\ \A k \in DOMAIN req :
                req[k].key \notin SixLabels => PositionIn(std, req[k]) > 0
           /\ \A j, k \in DOMAIN std :
                j < k => PositionIn(req, std[j]) < PositionIn(req, std[k])
           /\ \A k \in DOMAIN workflow.funcs : workflow.funcs[k].output_spaces = req

C5_Witness ==
    /\ pc = "returned"
    /\ workflow.funcs # <<>>
    /\ Len(args.output_spaces) = MaxSpaces
    /\ Len(workflow.anat[1].output_spaces) = 1
    /\ workflow.anat[1].output_spaces[1] =
            [key |-> "fsaverage", modifiers |-> {<<"density", "10k">>}]
    /\ args.output_spaces[1].key = "fsnative"

\* init_fmriprep_wf is past the creation of the preparation node
PastCreateTop == pc_top \in {"loop", "call", "propagate", "attach", "raised", "done"}

\* C6: with FreeSurfer enabled exactly one preparation node exists from before
\* the first subject is built until the end, whatever the subject list; its
\* spaces are the requested keys starting with 'fsaverage', in request order,
\* followed by 'fsnative' once iff it is requested. With FreeSurfer disabled
\* there is no such node.
C6_OneFsdir ==
    /\ pc_top = "start" => (fsdirs = <<>> /\ pc = "idle" /\ fmriprep_wf.subjects = <<>>)
    /\ (PastCreateTop /\ ~args.freesurfer) => fsdirs = <<>>
    /\ (PastCreateTop /\ args.freesurfer) =>
        /\ Len(fsdirs) = 1
        /\ LET sp == fsdirs[1].spaces
               keys == Keys(args.output_spaces)
               nfs == Cardinality({k \in DOMAIN keys : startswith(keys[k], "fsaverage")})
           IN /\ Len(sp) = nfs + (IF "fsnative" \in Range(keys) THEN 1 ELSE 0)
              /\ \A k \in 1..nfs :
                    /\ startswith(sp[k], "fsaverage")
                    /\ sp[k] \in Range(keys)
              /\ \A j, k \in 1..nfs :
                    j < k => (CHOOSE x \in DOMAIN keys : keys[x] = sp[j])
                                < (CHOOSE x \in DOMAIN keys : keys[x] = sp[k])
              /\ "fsnative" \in Range(keys) => sp[Len(sp)] = "fsnative"

C6_Witness ==
    /\ pc_top = "done"
    /\ args.freesurfer
    /\ Len(fmriprep_wf.subjects) = 1
    /\ Len(fsdirs) = 1
    /\ fsdirs[1].spaces = <<"fsaverage5", "fsnative">>
    /\ Keys(args.output_spaces) = <<"fsnative", "fsaverage5">>

\* C7: when init_fmriprep_wf returns, the top-level graph holds one
\* sub-pipeline per entry of subject_list, named single_subject_<id>_wf; with
\* FreeSurfer each has exactly one incoming edge, from the preparation node's
\* subjects_dir to its inputnode.subjects_dir; without FreeSurfer the graph has
\* no edges and every sub-pipeline is a node of it.
C7_OnePerSubject ==
    pc_top = "done" =>
        /\ Len(fmriprep_wf.subjects) = Len(args.subject_list)
        /\ \A k \in DOMAIN args.subject_list :
            LET name == "single_subject_" \o args.subject_list[k] \o "_wf"
                into == {e \in fmriprep_wf.edges : e.dst = name}
            IN /\ fmriprep_wf.subjects[k].name = name
               /\ Cardinality({j \in DOMAIN fmriprep_wf.nodes :
                                    fmriprep_wf.nodes[j] = name}) = 1
               /\ args.freesurfer =>
                    /\ Cardinality(into) = 1
                    /\ \A e \in into :
                        /\ e.src = fsdirs[1].name
                        /\ e.out = "subjects_dir"
                        /\ e.in = "inputnode.subjects_dir"
        /\ args.freesurfer =>
                Cardinality(fmriprep_wf.edges) = Len(args.subject_list)
        /\ ~args.freesurfer => fmriprep_wf.edges = {}

C7_Witness ==
    /\ pc_top = "done"
    /\ args.freesurfer
    /\ Len(fmriprep_wf.subjects) = 2
    /\ Cardinality(fmriprep_wf.edges) = 2

\* every configuration reference held by an attached sub-pipeline or its nodes
AttachedRefs ==
    {<<k, 0, fmriprep_wf.subjects[k].config>> : k \in DOMAIN fmriprep_wf.subjects}
        \cup UNION {{<<k, n, fmriprep_wf.subjects[k].nodes[n].config>> :
                        n \in DOMAIN fmriprep_wf.subjects[k].nodes} :
                    k \in DOMAIN fmriprep_wf.subjects}

\* C8: every node of every attached sub-pipeline carries a configuration equal
\* to its sub-pipeline's, whose crash-log directory is
\* <output_dir>/fmriprep/sub-<subject_id>/log/<run_uuid>; every node and every
\* sub-pipeline holds a configuration object of its own.
C8_ConfigPropagated ==
    /\ \A k \in DOMAIN fmriprep_wf.subjects :
        LET w == fmriprep_wf.subjects[k]
        IN /\ heap[w.config].crashdump_dir =
                args.output_dir \o "/fmriprep/sub-" \o args.subject_list[k]
                    \o "/log/" \o args.run_uuid
           /\ \A n \in DOMAIN w.nodes :
                /\ w.nodes[n].config \in DOMAIN heap
                /\ heap[w.nodes[n].config] = heap[w.config]
    /\ \A a, b \in AttachedRefs : a[3] = b[3] => a = b

C8_Witness ==
    /\ pc_top = "done"
    /\ Len(fmriprep_wf.subjects) = 2
    /\ fmriprep_wf.subjects[1].funcs # <<>>
    /\ Cardinality(AttachedRefs) > 20

IsFuncNode(name) == \E f \in FuncNames : startswith(name, f \o ".")

HasSinkName(name) == startswith(LastComponent(name), "ds_")

C10_PrefixIdempotent ==
    /\ Len(h_out) >= 1 =>
        /\ startswith(h_out[1], "sub-")
        /\ startswith(h_in, "sub-") => h_out[1] = h_in
        /\ ~startswith(h_in, "sub-") => h_out[1] = "sub-" \o h_in
        /\ h_in = "01" => h_out[1] = "sub-01"
        /\ h_in = "sub-01" => h_out[1] = "sub-01"
        /\ h_in = "" => h_out[1] = "sub-"
        /\ h_in = "sub" => h_out[1] = "sub-sub"
        /\ h_in = "sub-" => h_out[1] = "sub-"
    /\ Len(h_out) = 2 => h_out[2] = h_out[1]

C10_Witness ==
    /\ h_in = "sub"
    /\ h_out = <<"sub-sub", "sub-sub">>

\* C11 as stated: _pop never raises; for a list or tuple, empty ones included,
\* it returns the first element, and for any other value the value itself.
C11_AsStated ==
    p_out # <<>> =>
        /\ p_out[1].raised = ""
        /\ p_in.kind \in {"list", "tuple"} =>
                p_out[1].value = PyValue("int", <<p_in.items[1]>>)
        /\ p_in.kind \notin {"list", "tuple"} => p_out[1].value = p_in

FuncNamesOf(w) == {w.funcs[k].name : k \in DOMAIN w.funcs}

\* the dataflow layers of a subject graph: sources, the subject-label reader,
\* the summary and the anatomical sub-workflow, then sinks and functional
\* sub-workflows
Layer(name) ==
    IF name \in {"inputnode", "bidssrc", "about"} THEN 0
    ELSE IF name = "bids_info" THEN 1
    ELSE IF name \in {"summary", "anat_preproc_wf"} THEN 2
    ELSE 3

\* the direct children of a subject graph, one entry per child object
Children(w) ==
    SelectSeq([k \in DOMAIN w.nodes |-> w.nodes[k].name],
              LAMBDA n : LastComponent(n) = n)
        \o [k \in DOMAIN w.anat |-> w.anat[k].name]
        \o [k \in DOMAIN w.funcs |-> w.funcs[k].name]

DistinctNames(names) ==
    \A j, k \in DOMAIN names : j # k => names[j] # names[k]

ConnectedOnce(edges) ==
    /\ Cardinality({<<e.src, e.out, e.dst, e.in>> : e \in edges}) = Cardinality(edges)
    /\ Cardinality({<<e.dst, e.in>> : e \in edges}) = Cardinality(edges)

WellFormedSubject(w) ==
    LET children == Children(w)
        names == Range(children)
        funcs == FuncNamesOf(w)
    IN /\ DistinctNames(children)
       /\ ConnectedOnce(w.edges)
       /\ \A e \in w.edges :
            /\ e.src \in names
            /\ e.dst \in names
            /\ Layer(e.src) < Layer(e.dst)
            /\ e.dst \in funcs <=> e.src = "anat_preproc_wf"

NamedTask == IF args.task_id \in {None, <<"">>} THEN "<all>" ELSE args.task_id[1]

PastChecks == pc \in {"build", "overwrite", "anat_only", "func", "returned"}

\* C13: init_single_subject_wf raises two errors of its own, in a fixed order
\* and before any node exists: the BOLD check (only without anat_only) first,
\* then the T1w check. With both kinds of file missing and anat_only false the
\* error is the missing-BOLD one, naming the subject and the task ('<all>' for
\* an empty or None task filter); the missing-T1w error needs BOLD files or
\* anat_only; after either error there is no graph.
C13_TwoChecksInOrder ==
    LET bold_missing == subject_data.bold = <<>>
        t1w_missing == subject_data.t1w = <<>>
        bold_error == "No BOLD images found for participant " \o call.subject_id
                        \o " and task " \o NamedTask
                        \o ". All workflows require BOLD images."
        t1w_error == "No T1w images found for participant " \o call.subject_id
                        \o ". All workflows require T1w images."
    IN /\ error \in {"", bold_error, t1w_error, "Duplicate node name"}
       /\ pc = "check_t1w" => (args.anat_only \/ ~bold_missing)
       /\ PastChecks => (~t1w_missing /\ (args.anat_only \/ ~bold_missing))
       /\ pc \in {"collect", "check_bold", "check_t1w"} =>
            (workflow = NoWorkflow /\ error = "")
       /\ error \in {bold_error, t1w_error} =>
            /\ pc = "raised"
            /\ pc_top # "done"
            /\ workflow = NoWorkflow
            /\ pc_top = "none" => heap = <<>>
            /\ error = bold_error <=> (~args.anat_only /\ bold_missing)
            /\ error = t1w_error <=> (t1w_missing /\ (args.anat_only \/ ~bold_missing))
       /\ (pc = "raised" /\ workflow = NoWorkflow) =>
            /\ error \in {bold_error, t1w_error}
            /\ (~args.anat_only /\ bold_missing) \/ t1w_missing

\* both kinds of file missing, anat_only false, an empty task filter
C13_Witness ==
    /\ pc = "raised"
    /\ ~args.anat_only
    /\ args.task_id = <<"">>
    /\ subject_data = [t1w |-> <<>>, bold |-> <<>>]
    /\ call.subject_id = "01"
    /\ workflow = NoWorkflow
    /\ error = "No BOLD images found for participant 01 and task <all>. All workflows require BOLD images."

\* C14: init_single_subject_wf calls collect_data exactly once, before the
\* two checks, unless its name is 'single_subject_wf' or
\* 'single_subject_fmripreptest_wf' (the name init_fmriprep_wf gives subject
\* 'fmripreptest'): then collect_data is never called, the subject's files are
\* ignored for placeholder data of one T1w and one BOLD file, neither check
\* fails, and without anat_only exactly one functional sub-workflow is made.
C14_CollectOnceUnlessDoc ==
    LET doc == call.name \in {"single_subject_wf", "single_subject_fmripreptest_wf"}
    IN /\ pc = "collect" => collected = 0
       /\ (pc_top # "none" /\ InCall) =>
            (doc <=> call.subject_id = "fmripreptest")
       /\ (InCall /\ pc # "collect" /\ ~doc) =>
            /\ collected = 1
            /\ subject_data = layout[call.subject_id]
       /\ (InCall /\ pc # "collect" /\ doc) =>
            /\ collected = 0
            /\ Len(subject_data.t1w) = 1
            /\ Len(subject_data.bold) = 1
            /\ subject_data.t1w[1] \notin Range(layout[call.subject_id].t1w)
            /\ subject_data.bold[1] \notin Range(layout[call.subject_id].bold)
            /\ pc # "raised"
            /\ error = ""
            /\ (pc = "returned" /\ ~args.anat_only) =>
                /\ Len(workflow.funcs) = 1
                /\ workflow.funcs[1].bold_file = subject_data.bold[1]
            /\ (pc = "returned" /\ args.anat_only) => workflow.funcs = <<>>

\* init_fmriprep_wf has built the graph of subject 'fmripreptest', whose
\* dataset holds no file at all, with one functional sub-workflow
C14_Witness ==
    /\ pc_top = "call"
    /\ pc = "returned"
    /\ call = [name |-> "single_subject_fmripreptest_wf", subject_id |-> "fmripreptest"]
    /\ layout["fmripreptest"] = [t1w |-> <<>>, bold |-> <<>>]
    /\ ~args.anat_only
    /\ collected = 0
    /\ Len(workflow.funcs) = 1

====
